---- MODULE Spec2Model ----
(***************************************************************************)
(* A model of bulk_format: the title/date parsing engine (issue_data.rs),  *)
(* the partial date value (date.rs) and the table building and linking     *)
(* loops of main.rs.                                                       *)
(*                                                                         *)
(* Text is modelled as a sequence of one-character strings, so that the    *)
(* splitting, trimming and replacing the code does is computed and not     *)
(* assumed: "v. 1" is << "v", ".", " ", "1" >>.                            *)
(***************************************************************************)
EXTENDS Integers, Sequences, FiniteSets, TLC

VARIABLES
    \* convert_date (issue_data.rs)
    date,          \* the date fragment handed to convert_date
    converted,     \* what convert_date did with it
    date_pc,
    \* IssueData::new (issue_data.rs)
    shape,         \* how the raw title was put together
    tn,
    raw_title,
    date_loaded,
    issue_data,    \* what IssueData::new did with them
    new_pc,
    \* Date::try_from and Display (date.rs)
    string,        \* the text handed to Date::try_from
    parsed,        \* its Result
    shown,         \* what displaying the parsed Date wrote
    text_pc,
    \* Date::cmp (date.rs)
    self_date,
    other_date,
    ordering,
    cmp_pc,
    \* parse_lookup_table (main.rs)
    rows,          \* the records of the lookup CSV: tn, title, date loaded
    row_i,         \* how many of them the loop has gone through
    lookup_table,  \* the BTreeMap tn -> IssueData
    parser_calls,  \* the (tn, title) pairs handed to IssueData::new so far
    reported,      \* the count printed at the end
    lookup_pc,
    \* link_issues (main.rs)
    og_records,    \* the records as read
    records,       \* the records being linked
    link_i,        \* how many of them the loop has gone through
    written,       \* the records serialized so far
    link_pc,
    \* safely_target_file (lib.rs)
    existing,      \* the candidate names that exist on disk
    has_extension, \* whether the target's file name has an extension
    target,        \* the candidate name the function holds
    last_answer,   \* the last line read from stdin
    prompts,       \* how many times the prompt was printed
    target_pc,
    \* compare_tables (main.rs)
    compare_table,   \* the BTreeMap tn -> IssueData handed in
    generated_names, \* the Vec of generated node titles handed in
    missing,
    indexes,
    printed,         \* the lines written so far
    compare_pc,
    \* populate_csv (main.rs)
    inverse_lookup_table, \* the BTreeMap joined title -> IssueData handed in
    source_table,         \* the lookup table it was collected from
    target_records,       \* the records of the target CSV as read
    populated_exists,     \* whether "<stem>_populated.csv" is on disk
    populate_i,           \* how many records the loop has gone through
    populate_written,     \* the records serialized so far
    populate_pc

dateVars == <<date, converted, date_pc>>
titleVars == <<shape, tn, raw_title, date_loaded, issue_data, new_pc>>
textVars == <<string, parsed, shown, text_pc>>
ordVars == <<self_date, other_date, ordering, cmp_pc>>
lookupVars == <<rows, row_i, lookup_table, parser_calls, reported, lookup_pc>>
linkVars == <<og_records, records, link_i, written, link_pc>>
targetVars == <<existing, has_extension, target, last_answer, prompts, target_pc>>
compareVars == <<compare_table, generated_names, missing, indexes, printed, compare_pc>>
populateVars == <<inverse_lookup_table, source_table, target_records, populated_exists,
                  populate_i, populate_written, populate_pc>>
restVars == <<targetVars, compareVars, populateVars>>
vars == <<dateVars, titleVars, textVars, ordVars, lookupVars, linkVars, restVars>>

----------------------------------------------------------------------------
(* Bounds of the model. *)

\* leading tokens put in front of a date fragment
MaxJunk == 2

\* digits of a volume or issue number in a raw title
MaxDigits == 2

\* hyphen-separated components of a text handed to Date::try_from
MaxComponents == 4

\* records of a lookup CSV
MaxRows == 3

\* records of a CSV handed to link_issues
MaxRecords == 3

\* generated names "<stem>_1", "<stem>_1_2", ... that may exist on disk
MaxFiles == 3

\* prompts a user is followed through
MaxPrompts == 4

\* node titles of a generated table
MaxGenerated == 3

\* records of a CSV handed to populate_csv
MaxTargets == 2

----------------------------------------------------------------------------
(* Rust's str and Option, as far as the program uses them. *)

None == <<>>
Some(x) == <<x>>

IsWhitespace(c) == c \in {" ", "\t", "\n"}
IsDigit(c) == c \in {"0", "1", "2", "3", "4", "5", "6", "7", "8", "9"}
DigitVal(c) ==
    CASE c = "0" -> 0 [] c = "1" -> 1 [] c = "2" -> 2 [] c = "3" -> 3
      [] c = "4" -> 4 [] c = "5" -> 5 [] c = "6" -> 6 [] c = "7" -> 7
      [] c = "8" -> 8 [] c = "9" -> 9

Drop(s, n) == SubSeq(s, n + 1, Len(s))
Take(s, n) == SubSeq(s, 1, n)

\* str::starts_with
StartsWith(s, p) == Len(p) <= Len(s) /\ Take(s, Len(p)) = p

\* str::find: the 1-based position of the first occurrence of p, 0 if none
Find(s, p) ==
    LET hits == {i \in 1..(Len(s) - Len(p) + 1) : SubSeq(s, i, i + Len(p) - 1) = p}
    IN  IF hits = {} THEN 0 ELSE CHOOSE i \in hits : \A j \in hits : i <= j

\* str::contains
Contains(s, p) == Find(s, p) # 0

\* str::split_once: None, or Some of the text before and after the first p
SplitOnce(s, p) ==
    LET i == Find(s, p)
    IN  IF i = 0 THEN None
        ELSE Some(<<Take(s, i - 1), Drop(s, i + Len(p) - 1)>>)

\* str::split(p).collect(): never empty; "" gives one empty piece
RECURSIVE Split(_, _)
Split(s, p) ==
    LET i == Find(s, p)
    IN  IF i = 0 THEN <<s>>
        ELSE <<Take(s, i - 1)>> \o Split(Drop(s, i + Len(p) - 1), p)

\* str::replace: every non-overlapping occurrence, left to right
RECURSIVE Replace(_, _, _)
Replace(s, from, to) ==
    LET i == Find(s, from)
    IN  IF i = 0 THEN s
        ELSE Take(s, i - 1) \o to \o Replace(Drop(s, i + Len(from) - 1), from, to)

\* str::trim_start_matches(&str): strips the prefix as often as it occurs
RECURSIVE TrimStartMatches(_, _)
TrimStartMatches(s, p) ==
    IF Len(p) > 0 /\ StartsWith(s, p) THEN TrimStartMatches(Drop(s, Len(p)), p) ELSE s

\* str::trim_end_matches(char)
RECURSIVE TrimEndMatches(_, _)
TrimEndMatches(s, c) ==
    IF Len(s) > 0 /\ s[Len(s)] = c THEN TrimEndMatches(Take(s, Len(s) - 1), c) ELSE s

RECURSIVE TrimStart(_)
TrimStart(s) ==
    IF Len(s) > 0 /\ IsWhitespace(s[1]) THEN TrimStart(Drop(s, 1)) ELSE s

RECURSIVE TrimEnd(_)
TrimEnd(s) ==
    IF Len(s) > 0 /\ IsWhitespace(s[Len(s)]) THEN TrimEnd(Take(s, Len(s) - 1)) ELSE s

\* str::trim
Trim(s) == TrimEnd(TrimStart(s))

DigitChar(n) == CHOOSE c \in {"0", "1", "2", "3", "4", "5", "6", "7", "8", "9"} : DigitVal(c) = n

\* the value of a string of digits
RECURSIVE DigitsValue(_)
DigitsValue(s) ==
    IF Len(s) = 0 THEN 0
    ELSE 10 * DigitsValue(Take(s, Len(s) - 1)) + DigitVal(s[Len(s)])

RECURSIVE StripZeros(_)
StripZeros(s) == IF Len(s) > 0 /\ s[1] = "0" THEN StripZeros(Drop(s, 1)) ELSE s

\* a <= b, for strings of digits of one length
RECURSIVE DigitsLeq(_, _)
DigitsLeq(a, b) ==
    \/ Len(a) = 0
    \/ DigitVal(a[1]) < DigitVal(b[1])
    \/ (a[1] = b[1] /\ DigitsLeq(Tail(a), Tail(b)))

\* the number written by the digits is at most the one written by max
AtMost(digits, max) ==
    LET z == StripZeros(digits)
    IN  Len(z) < Len(max) \/ (Len(z) = Len(max) /\ DigitsLeq(z, max))

\* u32::MAX, 4294967295
U32Max == <<"4","2","9","4","9","6","7","2","9","5">>

\* str::parse::<u32>: an optional '+', then digits only, at least one, and a
\* value a u32 holds; None for Err
ParseU32(s) ==
    LET digits == IF Len(s) > 0 /\ s[1] = "+" THEN Drop(s, 1) ELSE s
    IN  IF Len(digits) = 0 \/ \E i \in 1..Len(digits) : ~IsDigit(digits[i]) THEN None
        ELSE IF ~AtMost(digits, U32Max) THEN None
        ELSE Some(DigitsValue(digits))

\* the text of a list of tokens, one space between two tokens
RECURSIVE Join(_)
Join(parts) ==
    IF Len(parts) = 0 THEN <<>>
    ELSE IF Len(parts) = 1 THEN parts[1]
    ELSE parts[1] \o <<" ">> \o Join(Tail(parts))

----------------------------------------------------------------------------
(* Diagnostics: print_warn! and print_warn_ok! write a line each; the      *)
(* model keeps the lines a call wrote, in order.                           *)

Warn(what, args) == [level |-> "warn", what |-> what, args |-> args]
WarnOk(what, args) == [level |-> "warn_ok", what |-> what, args |-> args]

Ok(value, log) == [status |-> "ok", value |-> value, panic |-> "", log |-> log]
Panic(msg, log) == [status |-> "panic", value |-> <<>>, panic |-> msg, log |-> log]

----------------------------------------------------------------------------
(* issue_data.rs: MONTHS, try_parse_month, convert_date *)

MONTHS ==
    << <<"J","a","n">>, <<"F","e","b">>, <<"M","a","r">>, <<"A","p","r">>,
       <<"M","a","y">>, <<"J","u","n">>, <<"J","u","l">>, <<"A","u","g">>,
       <<"S","e","p">>, <<"O","c","t">>, <<"N","o","v">>, <<"D","e","c">> >>

\* None stands for the panic "Invalid month."
try_parse_month(maybe_month) ==
    CASE maybe_month = <<"J","a","n">> -> Some(<<"0","1">>)
      [] maybe_month = <<"F","e","b">> -> Some(<<"0","2">>)
      [] maybe_month = <<"M","a","r">> -> Some(<<"0","3">>)
      [] maybe_month = <<"A","p","r">> -> Some(<<"0","4">>)
      [] maybe_month = <<"M","a","y">> -> Some(<<"0","5">>)
      [] maybe_month = <<"J","u","n">> -> Some(<<"0","6">>)
      [] maybe_month = <<"J","u","l">> -> Some(<<"0","7">>)
      [] maybe_month = <<"A","u","g">> -> Some(<<"0","8">>)
      [] maybe_month = <<"S","e","p">> -> Some(<<"0","9">>)
      [] maybe_month = <<"O","c","t">> -> Some(<<"1","0">>)
      [] maybe_month = <<"N","o","v">> -> Some(<<"1","1">>)
      [] maybe_month = <<"D","e","c">> -> Some(<<"1","2">>)
      [] OTHER -> None

\* the month of MONTHS a token starts with (the inner loop), 0 if none
MonthOfPart(part) ==
    LET hits == {m \in 1..Len(MONTHS) : StartsWith(part, MONTHS[m])}
    IN  IF hits = {} THEN 0 ELSE CHOOSE m \in hits : \A k \in hits : m <= k

\* the same search, keeping the last such token
FindMonthPart_Last(parts) ==
    LET hits == {i \in 1..Len(parts) : MonthOfPart(parts[i]) # 0}
    IN  IF hits = {} THEN None
        ELSE Some((CHOOSE i \in hits : \A j \in hits : i >= j) - 1)

\* the outer loop: the 0-based position of the first token that starts with
\* a month, None if there is none
FindMonthPart(parts) ==
    LET hits == {i \in 1..Len(parts) : MonthOfPart(parts[i]) # 0}
    IN  IF hits = {} THEN None
        ELSE Some((CHOOSE i \in hits : \A j \in hits : i <= j) - 1)

\* the day as written
PadDay_Never(day) == day

\* a one-character day gets a leading zero
PadDay(day) == IF Len(day) = 1 THEN <<"0">> \o day ELSE day

\* the match on parts.len()
DispatchParts(parts, log) ==
    CASE Len(parts) = 3 ->
            LET month == try_parse_month(TrimEndMatches(parts[1], "."))
                day   == PadDay(TrimEndMatches(parts[2], ","))
                year  == parts[3]
            IN  IF month = None THEN Panic("Invalid month.", log)
                ELSE Ok(year \o <<"-">> \o month[1] \o <<"-">> \o day, log)
      [] Len(parts) = 2 ->
            LET month == try_parse_month(TrimEndMatches(parts[1], "."))
                year  == parts[2]
            IN  IF month = None THEN Panic("Invalid month.", log)
                ELSE Ok(year \o <<"-">> \o month[1], log)
      [] Len(parts) = 1 -> Ok(parts[1], log)
      [] OTHER -> Panic("Invalid date.", log)

convert_date(d) ==
    LET parts == Split(d, <<" ">>)
    IN  IF Len(parts) # 3
        THEN LET month_i == FindMonthPart(parts)
                 warned  == <<Warn("Parts is not 3 in length", <<d>>)>>
             IN  IF month_i = None
                 THEN Panic("Failed to find month in date", warned)
                 ELSE DispatchParts(
                        Drop(parts, month_i[1]),
                        warned \o <<WarnOk("Found month",
                            <<MONTHS[MonthOfPart(parts[month_i[1] + 1])], month_i[1]>>)>>)
        ELSE DispatchParts(parts, <<>>)

----------------------------------------------------------------------------
(* issue_data.rs: IssueData::new *)

\* the title as written
UnderscoreTitle_Keep(title) == title

\* title.replace(" ", "_")
UnderscoreTitle(title) == Replace(title, <<" ">>, <<"_">>)

\* the same without the last replacement, of "v "
CloseUpPrefixes_NoV(v_n) ==
    Replace(Replace(Replace(Trim(v_n),
        <<"n","o","."," ">>, <<"n","o",".">>),
        <<"n","o"," ">>, <<"n","o">>),
        <<"v","."," ">>, <<"v",".">>)

\* the spacing of the "v." and "no." prefixes, closed up
CloseUpPrefixes(v_n) ==
    Replace(Replace(Replace(Replace(Trim(v_n),
        <<"n","o","."," ">>, <<"n","o",".">>),
        <<"n","o"," ">>, <<"n","o">>),
        <<"v","."," ">>, <<"v",".">>),
        <<"v"," ">>, <<"v">>)

\* the match on v_n.split_once(", "): the volume and issue texts
SplitVolumeIssue(v_n) ==
    LET comma == SplitOnce(v_n, <<",", " ">>)
    IN  IF comma # None THEN Ok(comma[1], <<>>)
        ELSE LET closed == CloseUpPrefixes(v_n)
                 warned == <<Warn("VOLUME AND ISSUE WERE NOT COMMA SEPARATED", <<closed>>)>>
                 space  == SplitOnce(closed, <<" ">>)
             IN  IF space = None THEN Panic("Failed to split volume/issue.", warned)
                 ELSE Ok(space[1],
                         warned \o <<WarnOk("Split volume/issue on the first space instead",
                                            space[1])>>)

\* trim_end_matches(|c| c == ',' || c == '.' || c.is_whitespace())
RECURSIVE TrimEndSeparators(_)
TrimEndSeparators(s) ==
    IF Len(s) > 0 /\ (s[Len(s)] \in {",", "."} \/ IsWhitespace(s[Len(s)]))
    THEN TrimEndSeparators(Take(s, Len(s) - 1)) ELSE s

StripVolume(volume) ==
    TrimEndSeparators(
        TrimStartMatches(TrimStartMatches(TrimStartMatches(TrimStartMatches(Trim(volume),
            <<"v", ".", " ">>), <<"v", ".">>), <<"v", " ">>), <<"v">>))

StripIssue(issue) ==
    TrimEndSeparators(
        TrimStartMatches(TrimStartMatches(TrimStartMatches(TrimStartMatches(Trim(issue),
            <<"n", "o", ".", " ">>), <<"n", "o", ".">>), <<"n", "o", " ">>), <<"n", "o">>))

\* the issue number, from the whole issue text or from what is before its
\* first space
ParseIssue(issue, log) ==
    LET whole == ParseU32(issue)
    IN  IF whole # None THEN Ok(whole, log)
        ELSE LET space == SplitOnce(issue, <<" ">>)
             IN  IF space = None THEN Panic("Failed to split issue.", log)
                 ELSE IF ParseU32(space[1][1]) = None THEN Panic("Failed to parse issue.", log)
                 ELSE Ok(ParseU32(space[1][1]), log)

\* the same test on the trimmed text
NoVolumeIssue_Trimmed(v_n) == Trim(v_n) = <<>>

\* if v_n.is_empty()
NoVolumeIssue(v_n) == v_n = <<>>

\* the (volume, issue) of the record
VolumeAndIssue(v_n, log) ==
    IF NoVolumeIssue(v_n) THEN Ok(<<None, None>>, log)
    ELSE LET halves == SplitVolumeIssue(v_n)
         IN  IF halves.status = "panic" THEN Panic(halves.panic, log \o halves.log)
             ELSE LET volume == ParseU32(StripVolume(halves.value[1]))
                      log2   == log \o halves.log
                  IN  IF volume = None THEN Panic("Failed to parse volume", log2)
                      ELSE LET issue == ParseIssue(StripIssue(halves.value[2]), log2)
                           IN  IF issue.status = "panic" THEN issue
                               ELSE Ok(<<volume, issue.value>>, log2)

\* the date fragment of a raw title
DateOfTitle(raw) ==
    LET parts == Split(raw, <<" ", "(">>)
    IN  TrimEndMatches(parts[Len(parts)], ")")

IssueData_new(t, raw, loaded) ==
    LET parts == Split(raw, <<" ", "(">>)
        d     == convert_date(DateOfTitle(raw))
        split == SplitOnce(parts[1], <<".">>)
    IN  IF d.status = "panic" THEN Panic(d.panic, d.log)
        ELSE IF split = None
        THEN Panic("Failed to split title from volume/issue", d.log)
        ELSE LET title == UnderscoreTitle(split[1][1])
                 vi    == VolumeAndIssue(split[1][2], d.log)
             IN  IF vi.status = "panic" THEN vi
                 ELSE Ok([tn |-> t, title |-> title,
                          volume |-> vi.value[1], issue |-> vi.value[2],
                          date |-> d.value, date_loaded |-> loaded], vi.log)

----------------------------------------------------------------------------
(* date.rs: Date, its TryFrom<&str>, Display and Ord *)

\* i32::MAX, 2147483647
I32Max == <<"2","1","4","7","4","8","3","6","4","7">>

\* str::parse::<i32>: an optional sign, then digits only, at least one, and
\* a value an i32 holds (the texts of the model stay below i32::MAX in
\* magnitude); None for Err
ParseI32(s) ==
    LET signed == Len(s) > 0 /\ s[1] \in {"+", "-"}
        digits == IF signed THEN Drop(s, 1) ELSE s
    IN  IF Len(digits) = 0 \/ \E i \in 1..Len(digits) : ~IsDigit(digits[i]) THEN None
        ELSE IF ~AtMost(digits, I32Max) THEN None
        ELSE IF signed /\ s[1] = "-" THEN Some(0 - DigitsValue(digits))
        ELSE Some(DigitsValue(digits))

\* Display for i32
RECURSIVE NatToString(_)
NatToString(n) ==
    IF n < 10 THEN <<DigitChar(n)>>
    ELSE NatToString(n \div 10) \o <<DigitChar(n % 10)>>

IntToString(n) == IF n < 0 THEN <<"-">> \o NatToString(0 - n) ELSE NatToString(n)

Date(year, month, day) == [year |-> year, month |-> month, day |-> day]
Err(e) == [ok |-> FALSE, err |-> e]
OkDate(d) == [ok |-> TRUE, date |-> d]

\* impl TryFrom<&str> for Date
Date_try_from(str) ==
    LET parts == Split(str, <<"-">>)
        year  == ParseI32(parts[1])
        month == ParseI32(parts[2])
        day   == ParseI32(parts[3])
    IN  CASE Len(parts) = 1 ->
                IF year = None THEN Err("Invalid year")
                ELSE OkDate(Date(year[1], None, None))
          [] Len(parts) = 2 ->
                IF year = None THEN Err("Invalid year")
                ELSE IF month = None THEN Err("Invalid month")
                ELSE OkDate(Date(year[1], month, None))
          [] Len(parts) = 3 ->
                IF year = None THEN Err("Invalid year")
                ELSE IF month = None THEN Err("Invalid month")
                ELSE IF day = None THEN Err("Invalid day")
                ELSE OkDate(Date(year[1], month, day))
          [] OTHER -> Err("Invalid date")

\* the same with day and month exchanged
Date_fmt_DayFirst(d) ==
    CASE d.month = None /\ d.day = None -> Some(IntToString(d.year))
      [] d.month # None /\ d.day = None ->
            Some(IntToString(d.year) \o <<"-">> \o IntToString(d.month[1]))
      [] d.month # None /\ d.day # None ->
            Some(IntToString(d.year) \o <<"-">> \o IntToString(d.day[1])
                    \o <<"-">> \o IntToString(d.month[1]))
      [] OTHER -> None

\* impl Display for Date; None stands for the panic
\* "Invalid date. Has a year and day, but no month"
Date_fmt(d) ==
    CASE d.month = None /\ d.day = None -> Some(IntToString(d.year))
      [] d.month # None /\ d.day = None ->
            Some(IntToString(d.year) \o <<"-">> \o IntToString(d.month[1]))
      [] d.month # None /\ d.day # None ->
            Some(IntToString(d.year) \o <<"-">> \o IntToString(d.month[1])
                    \o <<"-">> \o IntToString(d.day[1]))
      [] OTHER -> None

\* Ord for i32
i32_cmp(x, y) == IF x < y THEN "Less" ELSE IF x > y THEN "Greater" ELSE "Equal"

\* the same with None greater than any Some
Option_cmp_NoneLast(x, y) ==
    CASE x = None /\ y = None -> "Equal"
      [] x = None /\ y # None -> "Greater"
      [] x # None /\ y = None -> "Less"
      [] OTHER -> i32_cmp(x[1], y[1])

\* Ord for Option<i32>: None is less than any Some
Option_cmp(x, y) ==
    CASE x = None /\ y = None -> "Equal"
      [] x = None /\ y # None -> "Less"
      [] x # None /\ y = None -> "Greater"
      [] OTHER -> i32_cmp(x[1], y[1])

\* Ordering::then
Then(first, second) == IF first = "Equal" THEN second ELSE first

\* impl Ord for Date
Date_cmp(a, b) ==
    LET year_cmp  == i32_cmp(a.year, b.year)
        month_cmp == Option_cmp(a.month, b.month)
        day_cmp   == Option_cmp(a.day, b.day)
    IN  Then(Then(year_cmp, month_cmp), day_cmp)

----------------------------------------------------------------------------
(* The date fragments convert_date is run on: up to MaxJunk leading tokens *)
(* in front of a core of tokens.                                           *)

Days == { <<"6">>, <<"1","1">>, <<"2","1">> }
Years == { <<"1","9","4","4">>, <<"5","2">> }
JunkTokens == { <<"F","o","o">>, <<>>, <<"M","a","y","o","r">> }

MonthToken(m) == MONTHS[m] \o <<".">>
DayToken(dd) == dd \o <<",">>

Cores ==
    { <<MonthToken(m), DayToken(dd), y>> : m \in 1..12, dd \in Days, y \in Years }
    \cup { <<MonthToken(m), y>> : m \in 1..12, y \in Years }
    \cup { <<y>> : y \in Years }
    \cup { <<MONTHS[8]>>, <<>>,
           <<MonthToken(8), DayToken(<<"6">>), <<"1","9","4","4">>, <<"x">> >>,
           << <<"A","u","g","u","s","t">>, DayToken(<<"6">>), <<"1","9","4","4">> >>,
           << <<"a","u","g",".">>, <<"1","9","4","4">> >> }

RECURSIVE JunkUpTo(_)
JunkUpTo(n) ==
    IF n = 0 THEN { <<>> }
    ELSE JunkUpTo(n - 1) \cup { <<j>> \o p : j \in JunkTokens, p \in {q \in JunkUpTo(n - 1) : Len(q) = n - 1} }

DateFragments == { Join(j \o c) : j \in JunkUpTo(MaxJunk), c \in Cores }

DateIdle == date = <<>> /\ converted = None /\ date_pc = "idle"
TitleIdle ==
    /\ shape = [form |-> "none"]
    /\ tn = <<>> /\ raw_title = <<>> /\ date_loaded = <<>>
    /\ issue_data = None /\ new_pc = "idle"

TextIdle == string = <<>> /\ parsed = None /\ shown = None /\ text_pc = "idle"
OrdIdle == self_date = None /\ other_date = None /\ ordering = None /\ cmp_pc = "idle"
LookupIdle ==
    /\ rows = <<>> /\ row_i = 0 /\ lookup_table = <<>> /\ parser_calls = <<>>
    /\ reported = None /\ lookup_pc = "idle"
LinkIdle ==
    /\ og_records = <<>> /\ records = <<>> /\ link_i = 0 /\ written = <<>>
    /\ link_pc = "idle"

TargetIdle ==
    /\ existing = {} /\ has_extension = TRUE /\ target = 0 /\ last_answer = ""
    /\ prompts = 0 /\ target_pc = "idle"
CompareIdle ==
    /\ compare_table = <<>> /\ generated_names = <<>> /\ missing = <<>>
    /\ indexes = <<>> /\ printed = <<>> /\ compare_pc = "idle"
PopulateIdle ==
    /\ inverse_lookup_table = <<>> /\ source_table = <<>> /\ target_records = <<>>
    /\ populated_exists = FALSE /\ populate_i = 0 /\ populate_written = <<>>
    /\ populate_pc = "idle"
RestIdle == TargetIdle /\ CompareIdle /\ PopulateIdle

DateInit ==
    /\ date \in DateFragments
    /\ converted = None
    /\ date_pc = "start"
    /\ TitleIdle /\ TextIdle /\ OrdIdle /\ LookupIdle /\ LinkIdle /\ RestIdle

ConvertDate ==
    /\ date_pc = "start"
    /\ converted' = Some(convert_date(date))
    /\ date_pc' = IF convert_date(date).status = "ok" THEN "done" ELSE "panicked"
    /\ UNCHANGED <<date, titleVars, textVars, ordVars, lookupVars, linkVars, restVars>>

DateNext == ConvertDate

SpecDate == DateInit /\ [][DateNext]_vars

----------------------------------------------------------------------------
(* The raw titles IssueData::new is run on. A shape names the pieces of a  *)
(* raw title and the way they are put together; the code sees raw_title.   *)

Titles == { <<"F","o","o">>, <<"A","z"," ","C"," ","E">>, <<"A",","," ","B">> }
NumDigits == {"0", "1", "9"}

RECURSIVE DigitStrings(_)
DigitStrings(n) ==
    IF n = 0 THEN { <<>> }
    ELSE { <<c>> \o r : c \in NumDigits, r \in DigitStrings(n - 1) }

NumStrs == UNION { DigitStrings(n) : n \in 1..MaxDigits }

MonDayYearDates ==
    { <<"S","e","p","."," ","2","1",","," ","1","9","4","4">>,
      <<"A","u","g","."," ","6",","," ","1","9","4","4">> }
TitleDates == MonDayYearDates \cup { <<"J","u","l","."," ","1","9","5","2">> }
OddDates ==
    { <<"1","9","4","4">>,
      <<"F","o","o"," ","A","u","g","."," ","6",","," ","1","9","4","4">>,
      <<"(","e","s","t",".",")"," ","A","u","g","."," ","6",","," ","1","9","4","4">> }

OneDate == <<"S","e","p","."," ","2","1",","," ","1","9","4","4">>
OneNum == <<"1","1">>

Shape(form, title, n, m, vdot, vsp, ndot, nsp, d) ==
    [form |-> form, title |-> title, n |-> n, m |-> m,
     vdot |-> vdot, vsp |-> vsp, ndot |-> ndot, nsp |-> nsp, date |-> d]

Shapes ==
    { Shape("canonical", t, n, m, TRUE, TRUE, TRUE, TRUE, d) :
        t \in Titles, n \in NumStrs, m \in NumStrs, d \in TitleDates }
    \cup { Shape("no_comma", <<"F","o","o">>, n, m, vd, vs, nd, ns, OneDate) :
        n \in NumStrs, m \in NumStrs,
        vd \in BOOLEAN, vs \in BOOLEAN, nd \in BOOLEAN, ns \in BOOLEAN }
    \cup { Shape(f, t, OneNum, OneNum, TRUE, TRUE, TRUE, TRUE, d) :
        f \in {"canonical", "no_comma", "empty", "blank", "no_dot", "volume_only",
               "no_paren", "no_paren_comma", "words"},
        t \in Titles, d \in TitleDates \cup OddDates }

Optional(flag, text) == IF flag THEN text ELSE <<>>

VolumeText(sh) == <<"v">> \o Optional(sh.vdot, <<".">>) \o Optional(sh.vsp, <<" ">>) \o sh.n
IssueText(sh) == <<"n","o">> \o Optional(sh.ndot, <<".">>) \o Optional(sh.nsp, <<" ">>) \o sh.m
Parenthesized(sh) == <<" ", "(">> \o sh.date \o <<")">>

Render(sh) ==
    CASE sh.form = "canonical" ->
            sh.title \o <<".", " ">> \o VolumeText(sh) \o <<",", " ">> \o IssueText(sh)
                \o Parenthesized(sh)
      [] sh.form = "no_comma" ->
            sh.title \o <<".", " ">> \o VolumeText(sh) \o <<" ">> \o IssueText(sh)
                \o Parenthesized(sh)
      [] sh.form = "empty" -> sh.title \o <<".">> \o Parenthesized(sh)
      [] sh.form = "blank" -> sh.title \o <<".", " ">> \o Parenthesized(sh)
      [] sh.form = "no_dot" -> sh.title \o Parenthesized(sh)
      [] sh.form = "volume_only" ->
            sh.title \o <<".", " ">> \o VolumeText(sh) \o Parenthesized(sh)
      [] sh.form = "no_paren" ->
            sh.title \o <<".", " ">> \o VolumeText(sh) \o <<" ">> \o IssueText(sh)
                \o <<" ">> \o sh.date \o <<")">>
      [] sh.form = "no_paren_comma" ->
            sh.title \o <<".", " ">> \o VolumeText(sh) \o <<",", " ">> \o IssueText(sh)
                \o <<" ">> \o sh.date \o <<")">>
      [] sh.form = "words" ->
            sh.title \o <<".", " ">> \o VolumeText(sh) \o <<",", " ">>
                \o <<"n","o","n","e">> \o Parenthesized(sh)

Identified == { << <<"T","1">>, <<"x">> >>, << <<"T","2">>, <<"1","/","2","/","2","4"," ","9",":","0","5">> >> }

TitleInit ==
    /\ shape \in Shapes
    /\ raw_title = Render(shape)
    /\ \E id \in Identified : tn = id[1] /\ date_loaded = id[2]
    /\ issue_data = None
    /\ new_pc = "start"
    /\ DateIdle /\ TextIdle /\ OrdIdle /\ LookupIdle /\ LinkIdle /\ RestIdle

New ==
    /\ new_pc = "start"
    /\ issue_data' = Some(IssueData_new(tn, raw_title, date_loaded))
    /\ new_pc' = IF IssueData_new(tn, raw_title, date_loaded).status = "ok"
                 THEN "done" ELSE "panicked"
    /\ UNCHANGED <<shape, tn, raw_title, date_loaded, dateVars, textVars, ordVars,
                   lookupVars, linkVars, restVars>>

TitleNext == New

SpecTitle == TitleInit /\ [][TitleNext]_vars

----------------------------------------------------------------------------
(* The texts Date::try_from is run on, and the Dates that are compared.    *)

Components ==
    { <<"1","9","4","4">>, <<"8">>, <<"0","8">>, <<"1","2">>, <<"+","6">>, <<"x">>, <<>> }

RECURSIVE ComponentLists(_)
ComponentLists(n) ==
    IF n = 0 THEN { <<>> }
    ELSE { <<c>> \o r : c \in Components, r \in ComponentLists(n - 1) }

RECURSIVE Hyphenated(_)
Hyphenated(parts) ==
    IF Len(parts) = 1 THEN parts[1]
    ELSE parts[1] \o <<"-">> \o Hyphenated(Tail(parts))

DateTexts == { Hyphenated(l) : l \in UNION { ComponentLists(n) : n \in 1..MaxComponents } }

TextInit ==
    /\ string \in DateTexts
    /\ parsed = None
    /\ shown = None
    /\ text_pc = "start"
    /\ DateIdle /\ TitleIdle /\ OrdIdle /\ LookupIdle /\ LinkIdle /\ RestIdle

TryFrom ==
    /\ text_pc = "start"
    /\ parsed' = Some(Date_try_from(string))
    /\ text_pc' = IF Date_try_from(string).ok THEN "parsed" ELSE "rejected"
    /\ UNCHANGED <<string, shown, dateVars, titleVars, ordVars, lookupVars, linkVars, restVars>>

Display ==
    /\ text_pc = "parsed"
    /\ shown' = Date_fmt(parsed[1].date)
    /\ text_pc' = IF Date_fmt(parsed[1].date) = None THEN "panicked" ELSE "shown"
    /\ UNCHANGED <<string, parsed, dateVars, titleVars, ordVars, lookupVars, linkVars, restVars>>

TextNext == TryFrom \/ Display

SpecDateText == TextInit /\ [][TextNext]_vars

FieldsOfYear == {-1, 1944, 2020, 2021}
FieldsOfMonthDay == {None, Some(1), Some(2), Some(12)}
Dates == { Date(y, m, dd) : y \in FieldsOfYear, m \in FieldsOfMonthDay, dd \in FieldsOfMonthDay }

OrdInit ==
    /\ self_date \in Dates
    /\ other_date \in Dates
    /\ ordering = None
    /\ cmp_pc = "start"
    /\ DateIdle /\ TitleIdle /\ TextIdle /\ LookupIdle /\ LinkIdle /\ RestIdle

Cmp ==
    /\ cmp_pc = "start"
    /\ ordering' = Some(Date_cmp(self_date, other_date))
    /\ cmp_pc' = "done"
    /\ UNCHANGED <<self_date, other_date, dateVars, titleVars, textVars, lookupVars, linkVars, restVars>>

OrdNext == Cmp

SpecDateOrd == OrdInit /\ [][OrdNext]_vars

----------------------------------------------------------------------------
(* main.rs: parse_lookup_table. The CSV reader yields the records one by   *)
(* one; a record is its fields 0, 1 and 5.                                 *)

Row(t, title, loaded) == [tn |-> t, title |-> title, date_loaded |-> loaded]

RowTns == { <<>>, <<"T","1">>, <<"T","2">> }
RowTitles ==
    { <<"F","o","o","."," ","v","."," ","1",","," ","n","o","."," ","1","1"," ","(",
        "S","e","p","."," ","2","1",","," ","1","9","4","4",")">>,
      <<"F","o","o","."," ","(","A","u","g","."," ","6",","," ","1","9","4","4",")">>,
      <<"F","o","o"," ","(","1","9","4","4",")">> }
RowSet == { Row(t, title, <<"x">>) : t \in RowTns, title \in RowTitles }

RECURSIVE SeqsOf(_, _)
SeqsOf(S, n) ==
    IF n = 0 THEN { <<>> }
    ELSE { <<x>> \o r : x \in S, r \in SeqsOf(S, n - 1) }

SeqsUpTo(S, n) == UNION { SeqsOf(S, k) : k \in 0..n }

\* an insert that keeps the entry a key already has
Insert_KeepOld(table, key, value) ==
    [k \in DOMAIN table \cup {key} |-> IF k \in DOMAIN table THEN table[k] ELSE value]

\* BTreeMap::insert
Insert(table, key, value) ==
    [k \in DOMAIN table \cup {key} |-> IF k = key THEN value ELSE table[k]]

LookupInit ==
    /\ rows \in SeqsUpTo(RowSet, MaxRows)
    /\ row_i = 0
    /\ lookup_table = <<>>
    /\ parser_calls = <<>>
    /\ reported = None
    /\ lookup_pc = "reading"
    /\ DateIdle /\ TitleIdle /\ TextIdle /\ OrdIdle /\ LinkIdle /\ RestIdle

\* the record the loop is at, and the IssueData made from it
CurrentRow == rows[row_i + 1]
MadeOfRow(record) == IssueData_new(record.tn, record.title, record.date_loaded)

\* one turn of the loop over reader.records()
ReadRow ==
    /\ lookup_pc = "reading"
    /\ row_i < Len(rows)
    /\ IF CurrentRow.tn = <<>>
       THEN /\ row_i' = row_i + 1
            /\ UNCHANGED <<lookup_table, parser_calls, lookup_pc>>
       ELSE /\ parser_calls' = Append(parser_calls, <<CurrentRow.tn, CurrentRow.title>>)
            /\ IF MadeOfRow(CurrentRow).status = "panic"
               THEN /\ lookup_pc' = "panicked"
                    /\ UNCHANGED <<row_i, lookup_table>>
               ELSE /\ lookup_table' =
                        Insert(lookup_table, CurrentRow.tn, MadeOfRow(CurrentRow).value)
                    /\ row_i' = row_i + 1
                    /\ UNCHANGED lookup_pc
    /\ UNCHANGED <<rows, reported, dateVars, titleVars, textVars, ordVars, linkVars, restVars>>

\* the println! of lookup_table.len() after the loop
ReportCount ==
    /\ lookup_pc = "reading"
    /\ row_i = Len(rows)
    /\ reported' = Some(Cardinality(DOMAIN lookup_table))
    /\ lookup_pc' = "done"
    /\ UNCHANGED <<rows, row_i, lookup_table, parser_calls,
                   dateVars, titleVars, textVars, ordVars, linkVars, restVars>>

LookupNext == ReadRow \/ ReportCount

SpecLookup == LookupInit /\ [][LookupNext]_vars

----------------------------------------------------------------------------
(* main.rs: link_issues. Of an ArchiveRecord the model keeps the three     *)
(* fields the function reads or writes.                                    *)

ArchiveRecord(title, previous, next) ==
    [node_title |-> title, previous_issue |-> previous, next_issue |-> next]

NodeTitles == {"A", "B", "C"}
IssueLinks == {"", "Z"}
ArchiveRecords ==
    { ArchiveRecord(t, p, n) : t \in NodeTitles, p \in IssueLinks, n \in IssueLinks }

LinkInit ==
    /\ og_records \in SeqsUpTo(ArchiveRecords, MaxRecords)
    /\ records = og_records
    /\ link_i = 0
    /\ written = <<>>
    /\ link_pc = "linking"
    /\ DateIdle /\ TitleIdle /\ TextIdle /\ OrdIdle /\ LookupIdle /\ RestIdle

\* the record at 0-based position i, linked to its neighbours
Linked(record, i, og) ==
    LET with_previous ==
            IF i > 0 THEN [record EXCEPT !.previous_issue = og[i].node_title] ELSE record
    IN  IF i < Len(og) - 1
        THEN [with_previous EXCEPT !.next_issue = og[i + 2].node_title]
        ELSE with_previous

\* one turn of the loop over records.iter_mut().enumerate()
LinkRecord ==
    /\ link_pc = "linking"
    /\ link_i < Len(records)
    /\ LET record == Linked(records[link_i + 1], link_i, og_records)
       IN  /\ records' = [records EXCEPT ![link_i + 1] = record]
           /\ written' = Append(written, record)
    /\ link_i' = link_i + 1
    /\ UNCHANGED <<og_records, link_pc, dateVars, titleVars, textVars, ordVars, lookupVars, restVars>>

\* the println! after the loop
LinkDone ==
    /\ link_pc = "linking"
    /\ link_i = Len(records)
    /\ link_pc' = "done"
    /\ UNCHANGED <<og_records, records, link_i, written,
                   dateVars, titleVars, textVars, ordVars, lookupVars, restVars>>

LinkNext == LinkRecord \/ LinkDone

SpecLink == LinkInit /\ [][LinkNext]_vars

----------------------------------------------------------------------------
(* lib.rs: prompt_bool and safely_target_file. A candidate name is the     *)
(* number of suffixes appended to the stem: 0 is the target as passed, 1   *)
(* is "<dir>/<stem>_1.<ext>", 2 is "<dir>/<stem>_1_2.<ext>", ...; the disk *)
(* holds some of the candidates 0..MaxFiles.                               *)

Answers == {"y", "n", "other"}

\* prompt_bool's match on the trimmed, lowercased line: None is `continue`
prompt_bool_match(input) ==
    CASE input = "y" -> Some(TRUE)
      [] input = "n" -> Some(FALSE)
      [] OTHER -> None

\* the inner loop: the first generated name that does not exist
FirstFree(disk) == CHOOSE k \in 1..(MaxFiles + 1) :
    k \notin disk /\ \A j \in 1..(k - 1) : j \in disk

TargetInit ==
    /\ existing \in SUBSET (0..MaxFiles)
    /\ has_extension \in BOOLEAN
    /\ target = 0
    /\ last_answer = ""
    /\ prompts = 0
    /\ target_pc = "start"
    /\ DateIdle /\ TitleIdle /\ TextIdle /\ OrdIdle /\ LookupIdle /\ LinkIdle
    /\ CompareIdle /\ PopulateIdle

\* target_path.exists() and the first test of the outer loop
CheckTarget ==
    /\ target_pc = "start"
    /\ target_pc' = IF target \in existing THEN "prompting" ELSE "returned"
    /\ UNCHANGED <<existing, has_extension, target, last_answer, prompts,
                   dateVars, titleVars, textVars, ordVars, lookupVars, linkVars,
                   compareVars, populateVars>>

\* one turn of prompt_bool's loop and, once it returns, the rest of the
\* body of the outer loop up to its next test of target_exists
Answer(input) ==
    /\ target_pc = "prompting"
    /\ prompts < MaxPrompts
    /\ prompts' = prompts + 1
    /\ last_answer' = input
    /\ LET should_overwrite == prompt_bool_match(input)
       IN  IF should_overwrite = None \/ should_overwrite = Some(TRUE)
           THEN UNCHANGED <<target, target_pc>>
           ELSE IF has_extension
                THEN target' = FirstFree(existing) /\ target_pc' = "returned"
                ELSE UNCHANGED target /\ target_pc' = "panicked"
    /\ UNCHANGED <<existing, has_extension,
                   dateVars, titleVars, textVars, ordVars, lookupVars, linkVars,
                   compareVars, populateVars>>

TargetNext == CheckTarget \/ \E input \in Answers : Answer(input)

SpecTarget == TargetInit /\ [][TargetNext]_vars

----------------------------------------------------------------------------
(* main.rs: compare_tables. The canonical table holds records made by      *)
(* IssueData::new; the generated names are node titles as another tool     *)
(* wrote them: exact joined titles, a decorated one and an unrelated one.  *)

\* IssueData::record_title
record_title(issue) ==
    Replace(issue.title, <<"_">>, <<" ">>) \o <<",", " ">> \o issue.date

\* the keys of the canonical table, in the order a BTreeMap iterates them
CompareTns == << <<"T","1">>, <<"T","2">>, <<"T","3">> >>
CompareTitles ==
    { <<"F","o","o","."," ","(","A","u","g","."," ","6",","," ","1","9","4","4",")">>,
      <<"F","o","o","."," ","(","S","e","p","."," ","2","1",","," ","1","9","4","4",")">>,
      <<"A"," ","B","."," ","(","A","u","g","."," ","6",","," ","1","9","4","4",")">> }
GeneratedNames ==
    { <<"F","o","o",","," ","1","9","4","4","-","0","8","-","0","6">>,
      <<"F","o","o",","," ","1","9","4","4","-","0","9","-","2","1">>,
      <<"A"," ","B",","," ","1","9","4","4","-","0","8","-","0","6">>,
      <<"F","o","o",","," ","1","9","4","4","-","0","9","-","2","1"," ","(","c","o","p","y",")">> }

\* the keys of a table in ascending order
KeysOf(table) == SelectSeq(CompareTns, LAMBDA k : k \in DOMAIN table)

\* a println! line
Line(what, args) == [level |-> "info", what |-> what, args |-> args]

\* a date filter that asks for more than two records of the same date
SharesDate_Three(table, issue) ==
    Cardinality({ k \in DOMAIN table : table[k].date = issue.date }) > 2

\* lookup_table.values().filter(|i| i.date == issue.date).count() > 1
SharesDate(table, issue) ==
    Cardinality({ k \in DOMAIN table : table[k].date = issue.date }) > 1

\* the (tn, date) pairs pushed to duplicate_dates, in key order
DuplicateDates(table) ==
    LET flagged == SelectSeq(KeysOf(table), LAMBDA k : SharesDate(table, table[k]))
    IN  [i \in 1..Len(flagged) |-> <<flagged[i], table[flagged[i]].date>>]

\* Vec::contains: an element equal to the value
VecContains(names, value) == \E i \in 1..Len(names) : names[i] = value

\* iter().position(|n| n.contains(..)): the first name the value occurs in,
\* counted from 0; None when there is none
Position(names, value) ==
    LET hits == { i \in 1..Len(names) : Contains(names[i], value) }
    IN  IF hits = {} THEN None
        ELSE Some((CHOOSE i \in hits : \A j \in hits : i <= j) - 1)

\* <[usize]>::sort
RECURSIVE Sort(_)
Sort(s) ==
    IF Len(s) = 0 THEN <<>>
    ELSE LET i == CHOOSE i \in 1..Len(s) : \A j \in 1..Len(s) : s[i] <= s[j]
         IN  <<s[i]>> \o Sort(SubSeq(s, 1, i - 1) \o SubSeq(s, i + 1, Len(s)))

\* a loop that warns wherever a sorted index differs from its position
SequenceWarnings_ByPosition(sorted) ==
    LET at == { k \in 1..Len(sorted) : sorted[k] # k - 1 }
        ks == SelectSeq([k \in 1..Len(sorted) |-> k], LAMBDA k : k \in at)
    IN  [i \in 1..Len(ks) |-> Warn("Index is not sequential", <<sorted[ks[i]]>>)]

\* the loop over the sorted indexes: a warning wherever an index is not the
\* one before it plus one, `last` starting at -1
SequenceWarnings(sorted) ==
    LET last(k) == IF k = 1 THEN 0 - 1 ELSE sorted[k - 1]
        at == { k \in 1..Len(sorted) : sorted[k] # last(k) + 1 }
        ks == SelectSeq([k \in 1..Len(sorted) |-> k], LAMBDA k : k \in at)
    IN  [i \in 1..Len(ks) |-> Warn("Index is not sequential", <<sorted[ks[i]]>>)]

CompareInit ==
    /\ \E keys \in SUBSET { CompareTns[i] : i \in 1..Len(CompareTns) } :
         \E titles \in [keys -> CompareTitles] :
            compare_table = [k \in keys |-> IssueData_new(k, titles[k], <<"x">>).value]
    /\ generated_names \in SeqsUpTo(GeneratedNames, MaxGenerated)
    /\ missing = <<>>
    /\ indexes = <<>>
    /\ printed = <<>>
    /\ compare_pc = "duplicates"
    /\ DateIdle /\ TitleIdle /\ TextIdle /\ OrdIdle /\ LookupIdle /\ LinkIdle
    /\ TargetIdle /\ PopulateIdle

\* the block that looks for records of the same date
CheckDuplicates ==
    /\ compare_pc = "duplicates"
    /\ LET duplicate_dates == DuplicateDates(compare_table)
       IN  printed' =
               IF Len(duplicate_dates) = 0
               THEN <<Line("No duplicate dates found.", <<>>)>>
               ELSE <<Line("Duplicate dates:", <<>>)>> \o
                    [i \in 1..Len(duplicate_dates) |-> Line("duplicate", duplicate_dates[i])]
    /\ compare_pc' = "matching"
    /\ UNCHANGED <<compare_table, generated_names, missing, indexes,
                   dateVars, titleVars, textVars, ordVars, lookupVars, linkVars,
                   targetVars, populateVars>>

\* the loop over the canonical table that fills missing and indexes
MatchRecords ==
    /\ compare_pc = "matching"
    /\ LET keys == KeysOf(compare_table)
           title(k) == record_title(compare_table[k])
           absent == SelectSeq(keys, LAMBDA k : ~VecContains(generated_names, title(k)))
           found == SelectSeq(keys, LAMBDA k : VecContains(generated_names, title(k)))
       IN  /\ missing' = [i \in 1..Len(absent) |-> <<absent[i], title(absent[i])>>]
           /\ indexes' = [i \in 1..Len(found) |->
                             Position(generated_names, title(found[i]))[1]]
    /\ compare_pc' = "sequence"
    /\ UNCHANGED <<compare_table, generated_names, printed,
                   dateVars, titleVars, textVars, ordVars, lookupVars, linkVars,
                   targetVars, populateVars>>

\* the sort, the loop over the sorted indexes, the verdict and the count of
\* verified files; indexes[0] panics on an empty vector
CheckSequence ==
    /\ compare_pc = "sequence"
    /\ indexes' = Sort(indexes)
    /\ LET sorted == Sort(indexes)
           warnings == SequenceWarnings(sorted)
           is_sequential == Len(warnings) = 0
       IN  IF is_sequential /\ Len(sorted) = 0
           THEN /\ printed' = printed \o warnings
                /\ compare_pc' = "panicked"
           ELSE /\ printed' = printed \o warnings \o
                       << IF is_sequential
                          THEN Line("Indexes are sequential.",
                                    <<sorted[1], sorted[Len(sorted)]>>)
                          ELSE Line("Indexes are not sequential.", <<>>),
                          Line("Total verified files.", <<Len(sorted)>>) >>
                /\ compare_pc' = "missing"
    /\ UNCHANGED <<compare_table, generated_names, missing,
                   dateVars, titleVars, textVars, ordVars, lookupVars, linkVars,
                   targetVars, populateVars>>

\* the report of the missing entries
ReportMissing ==
    /\ compare_pc = "missing"
    /\ printed' = printed \o
           IF Len(missing) = 0
           THEN <<Line("No missing entries found.", <<>>)>>
           ELSE <<Line("Missing entries:", <<>>)>> \o
                [i \in 1..Len(missing) |-> Line("missing", missing[i])]
    /\ compare_pc' = "done"
    /\ UNCHANGED <<compare_table, generated_names, missing, indexes,
                   dateVars, titleVars, textVars, ordVars, lookupVars, linkVars,
                   targetVars, populateVars>>

CompareNext == CheckDuplicates \/ MatchRecords \/ CheckSequence \/ ReportMissing

SpecCompare == CompareInit /\ [][CompareNext]_vars

----------------------------------------------------------------------------
(* main.rs: the Populate command and populate_csv. Of an ArchiveRecord the *)
(* model keeps the node title and the three fields the function writes.    *)

TargetRecord(title, volume, issue, digitized) ==
    [node_title |-> title, volume |-> volume, issue |-> issue,
     date_digitized |-> digitized]

PopulateTitles ==
    { <<"F","o","o","."," ","v","."," ","0","1",","," ","n","o","."," ","1","1"," ","(","S","e","p","."," ","2","1",","," ","1","9","4","4",")">>,
      <<"F","o","o","."," ","(","S","e","p","."," ","2","1",","," ","1","9","4","4",")">>,
      <<"A"," ","B","."," ","(","A","u","g","."," ","6",","," ","1","9","4","4",")">> }
\* the "date loaded" column of the lookup CSV, one text for each row
LoadedOf(k) == <<"2","0","2","1","-","0","3","-","0">> \o <<k[2]>>
TargetRecords ==
    { TargetRecord(<<"F","o","o",","," ","1","9","4","4","-","0","9","-","2","1">>, <<"7">>, <<"7">>, <<"2","0","1","9","-","1","2","-","3","1">>),
      TargetRecord(<<"F","o","o",","," ","1","9","4","4","-","0","9","-","2","1">>, <<>>, <<>>, <<"2","0","1","9","-","1","2","-","3","1">>),
      TargetRecord(<<"A"," ","B",","," ","1","9","4","4","-","0","8","-","0","6">>, <<"7">>, <<"7">>, <<>>),
      TargetRecord(<<"B","a","r",","," ","1","9","5","0","-","0","1","-","0","1">>, <<>>, <<>>, <<>>) }

\* lookup_table.into_iter().map(|(_, v)| (v.record_title(), v)).collect()
RECURSIVE Collect(_, _)
Collect(table, keys) ==
    IF Len(keys) = 0 THEN <<>>
    ELSE LET v == table[keys[Len(keys)]]
         IN  Insert(Collect(table, SubSeq(keys, 1, Len(keys) - 1)), record_title(v), v)

\* a loop body that writes the normalized date of the issue
Populated_NormalizedDate(record, inverse) ==
    IF record.node_title \in DOMAIN inverse
    THEN LET issue == inverse[record.node_title]
         IN  [record EXCEPT
                !.date_digitized = issue.date,
                !.volume = IF issue.volume = None THEN @ ELSE IntToString(issue.volume[1]),
                !.issue = IF issue.issue = None THEN @ ELSE IntToString(issue.issue[1])]
    ELSE record

\* the body of the loop over the target records, up to the serialize
Populated(record, inverse) ==
    IF record.node_title \in DOMAIN inverse
    THEN LET issue == inverse[record.node_title]
         IN  [record EXCEPT
                !.date_digitized = issue.date_loaded,
                !.volume = IF issue.volume = None THEN @ ELSE IntToString(issue.volume[1]),
                !.issue = IF issue.issue = None THEN @ ELSE IntToString(issue.issue[1])]
    ELSE record

PopulateInit ==
    /\ \E keys \in SUBSET { CompareTns[i] : i \in 1..Len(CompareTns) } :
         \E titles \in [keys -> PopulateTitles] :
            source_table =
                [k \in keys |-> IssueData_new(k, titles[k], LoadedOf(k)).value]
    /\ inverse_lookup_table = <<>>
    /\ target_records \in SeqsUpTo(TargetRecords, MaxTargets)
    /\ populated_exists \in BOOLEAN
    /\ populate_i = 0
    /\ populate_written = <<>>
    /\ populate_pc = "collect"
    /\ DateIdle /\ TitleIdle /\ TextIdle /\ OrdIdle /\ LookupIdle /\ LinkIdle
    /\ TargetIdle /\ CompareIdle

\* the Populate arm of main up to the call, and populate_csv up to the
\* test for the populated file
OpenTarget ==
    /\ populate_pc = "collect"
    /\ inverse_lookup_table' = Collect(source_table, KeysOf(source_table))
    /\ populate_pc' = IF populated_exists THEN "prompting" ELSE "writing"
    /\ UNCHANGED <<source_table, target_records, populated_exists, populate_i,
                   populate_written, dateVars, titleVars, textVars, ordVars, lookupVars, linkVars,
                   targetVars, compareVars>>

\* one turn of prompt_bool's loop; on "n" the function returns Ok(())
AnswerOverwrite(input) ==
    /\ populate_pc = "prompting"
    /\ populate_pc' = CASE prompt_bool_match(input) = None -> "prompting"
                        [] prompt_bool_match(input) = Some(TRUE) -> "writing"
                        [] OTHER -> "declined"
    /\ UNCHANGED <<inverse_lookup_table, source_table, target_records, populated_exists,
                   populate_i, populate_written, dateVars, titleVars, textVars, ordVars, lookupVars, linkVars,
                   targetVars, compareVars>>

\* one turn of the loop over reader.deserialize()
PopulateRecord ==
    /\ populate_pc = "writing"
    /\ populate_i < Len(target_records)
    /\ populate_written' =
           Append(populate_written,
                  Populated(target_records[populate_i + 1], inverse_lookup_table))
    /\ populate_i' = populate_i + 1
    /\ UNCHANGED <<inverse_lookup_table, source_table, target_records, populated_exists,
                   populate_pc, dateVars, titleVars, textVars, ordVars, lookupVars, linkVars,
                   targetVars, compareVars>>

\* the end of the loop and the Ok(()) after it
FinishPopulate ==
    /\ populate_pc = "writing"
    /\ populate_i = Len(target_records)
    /\ populate_pc' = "done"
    /\ UNCHANGED <<inverse_lookup_table, source_table, target_records, populated_exists,
                   populate_i, populate_written, dateVars, titleVars, textVars, ordVars, lookupVars, linkVars,
                   targetVars, compareVars>>

PopulateNext ==
    \/ OpenTarget
    \/ \E input \in Answers : AnswerOverwrite(input)
    \/ PopulateRecord
    \/ FinishPopulate

SpecPopulate == PopulateInit /\ [][PopulateNext]_vars

----------------------------------------------------------------------------
(* Claims about IssueData::new, checked under SpecTitle. *)

NewReturned == new_pc = "done"
NewEnded == new_pc \in {"done", "panicked"}
NewResult == issue_data[1]
Record == issue_data[1].value

\* C1: a raw title "<Title>. v. N, no. M (<Mon>. <D>, <YYYY>)" gives the
\* record with the identifier and the load date as passed, the title with
\* every space turned into an underscore, volume N, issue M and the
\* normalization of the text between the last " (" and the closing ")".
C1_CanonicalTitle ==
    (NewEnded /\ shape.form = "canonical" /\ shape.date \in MonDayYearDates) =>
        /\ NewResult.status = "ok"
        /\ Record.tn = tn
        /\ Len(Record.title) = Len(shape.title)
        /\ \A i \in 1..Len(shape.title) :
              Record.title[i] = IF shape.title[i] = " " THEN "_" ELSE shape.title[i]
        /\ Record.volume = Some(DigitsValue(shape.n))
        /\ Record.issue = Some(DigitsValue(shape.m))
        /\ convert_date(shape.date).status = "ok"
        /\ Record.date = convert_date(shape.date).value
        /\ Record.date_loaded = date_loaded

\* "Az C E. v. 1, no. 11 (Sep. 21, 1944)" gave Az_C_E, 1, 11, 1944-09-21
C1_Witness ==
    /\ NewReturned
    /\ raw_title = <<"A","z"," ","C"," ","E","."," ","v","."," ","1",","," ",
                     "n","o","."," ","1","1"," ","(",
                     "S","e","p","."," ","2","1",","," ","1","9","4","4",")">>
    /\ Record.title = <<"A","z","_","C","_","E">>
    /\ Record.volume = Some(1)
    /\ Record.issue = Some(11)
    /\ Record.date = <<"1","9","4","4","-","0","9","-","2","1">>

\* C2: a raw title whose volume/issue segment is "v[.][ ]N no[.][ ]M", with
\* no comma, does not fail: volume and issue are N and M, as for the comma
\* separated title, and the last two diagnostics are the "not comma
\* separated" warning and the confirmation naming the two halves.
C2_NoComma ==
    (NewEnded /\ shape.form = "no_comma" /\ convert_date(shape.date).status = "ok") =>
        LET comma == IssueData_new(tn, Render([shape EXCEPT !.form = "canonical"]), date_loaded)
            log   == NewResult.log
            k     == Len(log)
        IN  /\ NewResult.status = "ok"
            /\ Record.volume = Some(DigitsValue(shape.n))
            /\ Record.issue = Some(DigitsValue(shape.m))
            /\ comma.status = "ok"
            /\ Record.volume = comma.value.volume
            /\ Record.issue = comma.value.issue
            /\ k >= 2
            /\ log[k - 1].level = "warn"
            /\ log[k - 1].what = "VOLUME AND ISSUE WERE NOT COMMA SEPARATED"
            /\ log[k].level = "warn_ok"
            /\ log[k].what = "Split volume/issue on the first space instead"
            /\ log[k].args = << <<"v">> \o Optional(shape.vdot, <<".">>) \o shape.n,
                                <<"n","o">> \o Optional(shape.ndot, <<".">>) \o shape.m >>

\* "Foo. v. 9 no 9 (Sep. 21, 1944)" gave volume 9 and issue 9
C2_Witness ==
    /\ NewReturned
    /\ raw_title = <<"F","o","o","."," ","v","."," ","9"," ","n","o"," ","9"," ","(",
                     "S","e","p","."," ","2","1",","," ","1","9","4","4",")">>
    /\ Record.volume = Some(9)
    /\ Record.issue = Some(9)
    /\ Len(NewResult.log) = 2

\* the text after the first "." of the first " ("-segment of the raw title
AfterFirstDot == SplitOnce(Split(raw_title, <<" ", "(">>)[1], <<".">>)[1][2]

\* C3: a returned record has volume and issue both present or both absent,
\* and both absent exactly when the text after the first "." of the first
\* " ("-segment is empty.
C3_BothOrNeither ==
    NewReturned =>
        /\ (Record.volume = None) = (Record.issue = None)
        /\ (Record.volume = None) = (AfterFirstDot = <<>>)

\* "Foo. (Aug. 6, 1944)" gave neither a volume nor an issue
C3_Witness ==
    /\ NewReturned
    /\ raw_title = <<"F","o","o","."," ","(","A","u","g","."," ","6",","," ","1","9","4","4",")">>
    /\ Record.volume = None
    /\ Record.issue = None

\* C16: a raw title whose date lost its opening parenthesis,
\* "<Title>. v. N no M <date>)" or "<Title>. v. N, no. M <date>)", does not
\* fail: the volume is N, the issue is the number before the first space of
\* the issue text, M, and the date is the normalization of the date text.
C16_MissingParenthesis ==
    (NewEnded /\ shape.form \in {"no_paren", "no_paren_comma"}
              /\ shape.date \in MonDayYearDates) =>
        /\ NewResult.status = "ok"
        /\ Record.volume = Some(DigitsValue(shape.n))
        /\ Record.issue = Some(DigitsValue(shape.m))
        /\ Record.date = convert_date(shape.date).value

----------------------------------------------------------------------------
(* Claims about convert_date, checked under SpecDate. *)

TwoDigits(n) == <<DigitChar(n \div 10), DigitChar(n % 10)>>
Dash == <<"-">>

DateDone == date_pc \in {"done", "panicked"}
DateResult == converted[1]

\* C4: "<Mon>. <D>, <YYYY>" with a recognized month gives "<YYYY>-<MM>-<DD>",
\* MM the two-digit month number and DD the day, with a leading zero when the
\* day is one character; "<Mon>. <YYYY>" gives "<YYYY>-<MM>".
C4_MonthDayYear ==
    DateDone =>
        /\ \A m \in 1..12, dd \in Days, y \in Years :
              date = MONTHS[m] \o <<".", " ">> \o dd \o <<",", " ">> \o y
              => /\ DateResult.status = "ok"
                 /\ DateResult.value =
                      y \o Dash \o TwoDigits(m) \o Dash
                        \o (IF Len(dd) = 1 THEN <<"0">> \o dd ELSE dd)
        /\ \A m \in 1..12, y \in Years :
              date = MONTHS[m] \o <<".", " ">> \o y
              => /\ DateResult.status = "ok"
                 /\ DateResult.value = y \o Dash \o TwoDigits(m)

\* "Aug. 6, 1944" became "1944-08-06"
C4_Witness ==
    /\ DateDone
    /\ date = <<"A","u","g","."," ","6",","," ","1","9","4","4">>
    /\ DateResult.value = <<"1","9","4","4","-","0","8","-","0","6">>

\* C5: a fragment of one (non-empty) space-free token is returned unchanged without a
\* fatal error, and the "no month found" fatal error occurs only when the
\* number of tokens is neither 3 nor 1.
C5_BareYear ==
    DateDone =>
        LET n == Len(Split(date, <<" ">>))
        IN  /\ (n = 1 /\ Len(date) > 0) => DateResult.status = "ok" /\ DateResult.value = date
            /\ DateResult.panic = "Failed to find month in date" => n \notin {1, 3}

\* C6: a fragment that is not 3 tokens long and has a token starting with a
\* month gives what the tokens from the first such token on give by
\* themselves, after the recovery warning and one diagnostic naming the month
\* and the position found; a fragment of 3 tokens writes no diagnostic.
C6_Recovery ==
    DateDone =>
        LET parts == Split(date, <<" ">>)
            IsMonthPart(i) == \E m \in 1..12 : StartsWith(parts[i], MONTHS[m])
        IN  /\ Len(parts) = 3 => DateResult.log = <<>>
            /\ \A k \in 1..Len(parts) :
                  (Len(parts) # 3 /\ IsMonthPart(k) /\ \A j \in 1..(k - 1) : ~IsMonthPart(j))
                  => LET alone == convert_date(Join(Drop(parts, k - 1)))
                     IN  /\ DateResult.status = alone.status
                         /\ DateResult.value = alone.value
                         /\ DateResult.panic = alone.panic
                         /\ Len(DateResult.log) = 2
                         /\ DateResult.log[1] = Warn("Parts is not 3 in length", <<date>>)
                         /\ DateResult.log[2].level = "warn_ok"
                         /\ DateResult.log[2].what = "Found month"
                         /\ DateResult.log[2].args[2] = k - 1
                         /\ StartsWith(parts[k], DateResult.log[2].args[1])

\* "Foo Aug. 6, 1944" was recovered to "1944-08-06" with two diagnostics
C6_Witness ==
    /\ DateDone
    /\ date = <<"F","o","o"," ","A","u","g","."," ","6",","," ","1","9","4","4">>
    /\ DateResult.value = <<"1","9","4","4","-","0","8","-","0","6">>
    /\ Len(DateResult.log) = 2

----------------------------------------------------------------------------
(* Claims about Date, checked under SpecDateText and SpecDateOrd. *)

\* a component written the way an integer is displayed: digits only, no
\* sign, no leading zero
PlainDecimal(c) ==
    /\ Len(c) >= 1
    /\ \A i \in 1..Len(c) : c[i] \in {"0", "1", "2", "3", "4", "5", "6", "7", "8", "9"}
    /\ (Len(c) = 1 \/ c[1] # "0")

\* C7 as claimed: displaying the Date parsed from an accepted text of 1, 2 or
\* 3 hyphen-separated components gives that text back, leading zeros
\* included (stated here for components written with digits alone).
C7_RoundTrip ==
    (text_pc = "shown" /\ ~Contains(string, <<"+">>)) => shown[1] = string

\* C7 as amended: displaying the Date parsed from an accepted text gives the
\* text back exactly when every component is a plain decimal numeral (no
\* leading zero, no "+" sign).
C7_RoundTripPlain ==
    text_pc = "shown" =>
        LET parts == Split(string, <<"-">>)
        IN  (shown[1] = string) = (\A i \in 1..Len(parts) : PlainDecimal(parts[i]))

\* "1944-8-12" was parsed and displayed as "1944-8-12"
C7_Witness ==
    /\ text_pc = "shown"
    /\ string = <<"1","9","4","4","-","8","-","1","2">>
    /\ shown[1] = string

OptionBefore(x, y) == (x = None /\ y # None) \/ (x # None /\ y # None /\ x[1] < y[1])

\* (year, month, day) of a before that of b, an absent field before a present one
TupleBefore(a, b) ==
    \/ a.year < b.year
    \/ a.year = b.year /\ OptionBefore(a.month, b.month)
    \/ a.year = b.year /\ a.month = b.month /\ OptionBefore(a.day, b.day)

Reverse(o) == CASE o = "Less" -> "Greater" [] o = "Greater" -> "Less" [] OTHER -> "Equal"

\* C8: Date::cmp is the lexicographic order of (year, month, day) with an
\* absent month or day before any present one; it is Equal exactly for
\* field-wise equal dates, antisymmetric, total and transitive.
C8_TotalOrder ==
    cmp_pc = "done" =>
        /\ ordering[1] \in {"Less", "Equal", "Greater"}
        /\ (ordering[1] = "Less") = TupleBefore(self_date, other_date)
        /\ (ordering[1] = "Greater") = TupleBefore(other_date, self_date)
        /\ (ordering[1] = "Equal") = (self_date = other_date)
        /\ Date_cmp(other_date, self_date) = Reverse(ordering[1])
        /\ \A c \in Dates :
              (ordering[1] # "Greater" /\ Date_cmp(other_date, c) # "Greater")
              => /\ Date_cmp(self_date, c) # "Greater"
                 /\ (ordering[1] = "Less" \/ Date_cmp(other_date, c) = "Less")
                      => Date_cmp(self_date, c) = "Less"

\* a year without a month was compared with the same year with a month
C8_Witness ==
    /\ cmp_pc = "done"
    /\ self_date = Date(2020, None, None)
    /\ other_date = Date(2020, Some(1), Some(2))
    /\ ordering = Some("Less")

----------------------------------------------------------------------------
(* Claims about parse_lookup_table (SpecLookup) and link_issues (SpecLink). *)

\* the rows gone through so far that carry an identifier
Identified_Rows == { i \in 1..row_i : rows[i].tn # <<>> }
LastRowOf(id) ==
    CHOOSE i \in Identified_Rows :
        rows[i].tn = id /\ \A j \in Identified_Rows : rows[j].tn = id => j <= i

\* C9: after any number of rows whose titles parse, the table has exactly
\* one entry per distinct non-empty identifier seen, built from the last row
\* with that identifier; rows without an identifier change nothing and are
\* not handed to the parser; the count reported is the number of distinct
\* non-empty identifiers.
C9_LookupTable ==
    lookup_pc \in {"reading", "done"} =>
        /\ DOMAIN lookup_table = { rows[i].tn : i \in Identified_Rows }
        /\ \A id \in DOMAIN lookup_table :
              LET last == rows[LastRowOf(id)]
                  made == IssueData_new(id, last.title, last.date_loaded)
              IN  made.status = "ok" /\ lookup_table[id] = made.value
        /\ Len(parser_calls) = Cardinality(Identified_Rows)
        /\ \A k \in 1..Len(parser_calls) : parser_calls[k][1] # <<>>
        /\ \A i \in Identified_Rows : \E k \in 1..Len(parser_calls) :
              parser_calls[k] = <<rows[i].tn, rows[i].title>>
        /\ lookup_pc = "done" =>
              reported = Some(Cardinality({ rows[i].tn : i \in 1..Len(rows) } \ { <<>> }))

\* T1 came twice, around a row with no identifier and a title that does not
\* parse: one entry, from the second T1 row
C9_Witness ==
    /\ lookup_pc = "done"
    /\ Len(rows) = 3
    /\ rows[1].tn = <<"T","1">> /\ rows[3].tn = <<"T","1">> /\ rows[2].tn = <<>>
    /\ rows[2].title = <<"F","o","o"," ","(","1","9","4","4",")">>
    /\ rows[1].title # rows[3].title
    /\ reported = Some(1)
    /\ lookup_table[<<"T","1">>].date = convert_date(DateOfTitle(rows[3].title)).value

\* C10: link_issues writes the n records in order, the one at position i > 0
\* with the node title of position i-1 as previous_issue, the one at
\* position i < n-1 with the node title of position i+1 as next_issue, the
\* first with no previous_issue and the last with no next_issue, whatever
\* the input held.
C10_Linked ==
    link_pc = "done" =>
        LET n == Len(og_records)
        IN  /\ Len(written) = n
            /\ \A i \in 1..n :
                  /\ written[i].node_title = og_records[i].node_title
                  /\ i > 1 => written[i].previous_issue = og_records[i - 1].node_title
                  /\ i < n => written[i].next_issue = og_records[i + 1].node_title
            /\ n > 0 => written[1].previous_issue = "" /\ written[n].next_issue = ""

----------------------------------------------------------------------------
(* Claims about safely_target_file, checked under SpecTarget. *)

\* C15: safely_target_file returns once the user has answered: a target
\* that does not exist is returned without a prompt; after the answer "y"
\* the target as passed is returned; after the answer "n" a generated name
\* that does not exist is returned.
C15_ReturnsOnceAnswered ==
    /\ (target_pc = "returned" /\ 0 \notin existing) => (target = 0 /\ prompts = 0)
    /\ (has_extension /\ last_answer \in {"y", "n"}) => target_pc = "returned"
    /\ (target_pc = "returned" /\ last_answer = "y") => target = 0
    /\ (target_pc = "returned" /\ last_answer = "n") => (target # 0 /\ target \notin existing)

----------------------------------------------------------------------------
(* Claims about compare_tables, checked under SpecCompare. *)

DuplicatesChecked == compare_pc \notin {"idle", "duplicates"}
Matched == compare_pc \in {"sequence", "panicked", "missing", "done"}
SequenceChecked == compare_pc \in {"panicked", "missing", "done"}

IsPrinted(line) == \E i \in 1..Len(printed) : printed[i] = line
Listed(k) == IsPrinted(Line("duplicate", <<k, compare_table[k].date>>))
DatesDistinct ==
    \A j, k \in DOMAIN compare_table :
        j # k => compare_table[j].date # compare_table[k].date

\* C11: a record is listed under "Duplicate dates" exactly when another
\* record of the table has the same normalized date, and "No duplicate
\* dates found." is printed exactly when all dates are pairwise distinct.
C11_DuplicateDates ==
    DuplicatesChecked =>
        /\ \A k \in DOMAIN compare_table :
               Listed(k) <=> \E j \in DOMAIN compare_table \ {k} :
                                compare_table[j].date = compare_table[k].date
        /\ IsPrinted(Line("No duplicate dates found.", <<>>)) <=> DatesDistinct
        /\ IsPrinted(Line("Duplicate dates:", <<>>)) <=> ~DatesDistinct

C11_Witness ==
    /\ DuplicatesChecked
    /\ DOMAIN compare_table = {<<"T","1">>, <<"T","2">>, <<"T","3">>}
    /\ compare_table[<<"T","1">>].date = compare_table[<<"T","3">>].date
    /\ compare_table[<<"T","1">>].title # compare_table[<<"T","3">>].title
    /\ compare_table[<<"T","2">>].date # compare_table[<<"T","1">>].date
    /\ Listed(<<"T","1">>) /\ Listed(<<"T","3">>) /\ ~Listed(<<"T","2">>)

IsMissing(k) == \E i \in 1..Len(missing) : missing[i][1] = k
OccursIn(k) ==
    \E i \in 1..Len(generated_names) :
        Contains(generated_names[i], record_title(compare_table[k]))

\* C12: a record is reported missing exactly when no generated name
\* contains its joined title as a substring; a record whose joined title
\* occurs inside a longer generated name is matched and its index recorded.
C12_MissingIffNoSubstring ==
    Matched =>
        /\ \A k \in DOMAIN compare_table : IsMissing(k) <=> ~OccursIn(k)
        /\ Len(indexes) = Cardinality({ k \in DOMAIN compare_table : OccursIn(k) })

Warned(index) == IsPrinted(Warn("Index is not sequential", <<index>>))
WarningsPrinted == SelectSeq(printed, LAMBDA l : l.level = "warn")
SaidSequential ==
    \E i \in 1..Len(printed) : printed[i].what = "Indexes are sequential."
SaidNotSequential == IsPrinted(Line("Indexes are not sequential.", <<>>))
InPlace == \A k \in 1..Len(indexes) : indexes[k] = k - 1
Breaks ==
    { k \in 1..Len(indexes) :
        indexes[k] # (IF k = 1 THEN 0 - 1 ELSE indexes[k - 1]) + 1 }

\* C13: with the matched indexes sorted, a warning naming index[k] is
\* emitted for every position k with index[k] # k, and where the check is
\* gone through the verdict "Indexes are sequential." is printed exactly
\* when index[k] = k for all k.
C13_EveryPosition ==
    SequenceChecked =>
        /\ \A k \in 1..Len(indexes) : indexes[k] # k - 1 => Warned(indexes[k])
        /\ compare_pc # "panicked" => (SaidSequential <=> InPlace)

\* C13, amended: a warning naming index[k] is emitted exactly for the
\* positions k where index[k] is not index[k-1] + 1 (-1 standing before
\* the first index), once for each; "Indexes are not sequential." is
\* printed exactly when some index[k] # k, and "Indexes are sequential."
\* only when index[k] = k for all k.
C13_EveryBreak ==
    SequenceChecked =>
        /\ Len(WarningsPrinted) = Cardinality(Breaks)
        /\ \A k \in Breaks : Warned(indexes[k])
        /\ \A i \in 1..Len(WarningsPrinted) :
               \E k \in Breaks : WarningsPrinted[i].args = <<indexes[k]>>
        /\ SaidNotSequential <=> ~InPlace
        /\ SaidSequential => InPlace

C13_Witness ==
    /\ SequenceChecked
    /\ indexes = <<1, 2>>
    /\ Warned(1) /\ ~Warned(2)
    /\ SaidNotSequential

\* C17: compare_tables runs to completion for every table and every list
\* of generated names, and the completed report holds the duplicate
\* verdict, the sequential verdict, the verified count and the missing
\* list, the verified count plus the missing entries being the number of
\* records of the table.
C17_Completes ==
    /\ compare_pc # "panicked"
    /\ compare_pc = "done" =>
          /\ IsPrinted(Line("No duplicate dates found.", <<>>))
                \/ IsPrinted(Line("Duplicate dates:", <<>>))
          /\ SaidSequential \/ SaidNotSequential
          /\ IsPrinted(Line("Total verified files.", <<Len(indexes)>>))
          /\ IsPrinted(Line("No missing entries found.", <<>>))
                \/ IsPrinted(Line("Missing entries:", <<>>))
          /\ Len(indexes) + Len(missing) = Cardinality(DOMAIN compare_table)

----------------------------------------------------------------------------
(* Claims about populate_csv, checked under SpecPopulate. *)

\* the lookup records whose joined title is the node title of a record
MatchesOf(record) ==
    { k \in DOMAIN source_table : record_title(source_table[k]) = record.node_title }

\* C14: a target record whose node title is the joined title of a lookup
\* record is written with that record's normalized date as Date Digitized
\* and with its volume and issue in decimal where present, as read where
\* absent; a record without a lookup record is written unchanged.
C14_NormalizedDate ==
    \A i \in 1..Len(populate_written) :
        LET read == target_records[i]
            wrote == populate_written[i]
        IN  /\ \A k \in MatchesOf(read) :
                   LET issue == source_table[k]
                   IN  /\ wrote.node_title = read.node_title
                       /\ wrote.date_digitized = issue.date
                       /\ wrote.volume = IF issue.volume = None THEN read.volume
                                         ELSE IntToString(issue.volume[1])
                       /\ wrote.issue = IF issue.issue = None THEN read.issue
                                        ELSE IntToString(issue.issue[1])
            /\ MatchesOf(read) = {} => wrote = read

\* C14, amended: a target record that is written and whose node title is
\* the joined title of lookup records is written with the load date of the
\* last of them in identifier order as Date Digitized, and with that
\* record's volume and issue in decimal where present, as read where
\* absent; a record without a lookup record is written unchanged; records
\* are written in the order read, and none once the user has declined to
\* overwrite the populated file.
C14_DateLoaded ==
    /\ populate_pc \in {"collect", "prompting", "declined"} => populate_written = <<>>
    /\ populate_pc = "done" => Len(populate_written) = Len(target_records)
    /\ \A i \in 1..Len(populate_written) :
          LET read == target_records[i]
              wrote == populate_written[i]
          IN  /\ \A k \in MatchesOf(read) :
                     (\A j \in MatchesOf(read) :
                         \E a, b \in 1..Len(CompareTns) :
                             a <= b /\ CompareTns[a] = j /\ CompareTns[b] = k) =>
                     LET issue == source_table[k]
                     IN  /\ wrote.node_title = read.node_title
                         /\ wrote.date_digitized = issue.date_loaded
                         /\ wrote.volume = IF issue.volume = None THEN read.volume
                                           ELSE IntToString(issue.volume[1])
                         /\ wrote.issue = IF issue.issue = None THEN read.issue
                                          ELSE IntToString(issue.issue[1])
              /\ MatchesOf(read) = {} => wrote = read

C14_Witness ==
    /\ populate_pc = "done"
    /\ Len(target_records) = 2
    /\ DOMAIN source_table = {<<"T","1">>, <<"T","2">>, <<"T","3">>}
    /\ MatchesOf(target_records[1]) = {<<"T","1">>, <<"T","3">>}
    /\ source_table[<<"T","1">>].volume = None
    /\ target_records[1].volume = <<>>
    /\ populate_written[1] =
          TargetRecord(<<"F","o","o",","," ","1","9","4","4","-","0","9","-","2","1">>, <<"1">>, <<"1","1">>,
                       <<"2","0","2","1","-","0","3","-","0","3">>)
    /\ MatchesOf(target_records[2]) = {<<"T","2">>}
    /\ populate_written[2] =
          TargetRecord(<<"A"," ","B",","," ","1","9","4","4","-","0","8","-","0","6">>, <<"7">>, <<"7">>,
                       <<"2","0","2","1","-","0","3","-","0","2">>)

====
